---- MODULE Spec2Model ----
(***************************************************************************)
(* Peer storage on top of pebble (gotd/contrib).                           *)
(*                                                                         *)
(* Two storages are modelled, selected by the variable `variant`:          *)
(*   "prefixed"  the storage with Iterate, whose Add writes the record     *)
(*               and one alias entry per value.Keys() in one batch;        *)
(*   "plain"     pebble/peer_storage.go, the resolver cache, whose Add     *)
(*               writes the record only and whose Assign writes the record *)
(*               and one alias entry.                                      *)
(* Keys and values are byte strings: sequences of integers in 0..255.      *)
(***************************************************************************)
EXTENDS Integers, Sequences, FiniteSets, TLC

VARIABLES variant, db, nwrites, lastWrite, written, ret, res, cur, kub, call, rel

vars == <<variant, db, nwrites, lastWrite, written, ret, res, cur, kub, call, rel>>

\* ------------------------------------------------------------------ bounds
\* the number of write calls (Add, Assign) of a behaviour
MaxWrites == 2

Variants == {"prefixed", "plain"}

\* the identities of the peers
Ids == {1, 2}

\* the longest prefix and key that keyUpperBound is applied to
MaxLen == 2

\* the number of writes before the reads whose handles are counted
MaxFaultWrites == 1

\* the number of Close calls on one cursor
MaxCloses == 2

\* ------------------------------------------------------ byte-string helpers
Min(a, b) == IF a < b THEN a ELSE b

\* bytes.HasPrefix
HasPrefix(k, p) == Len(k) >= Len(p) /\ SubSeq(k, 1, Len(p)) = p

\* bytes.Compare(a, b) < 0: the order of pebble's default comparer
LexLess(a, b) ==
    \E i \in 1..(Min(Len(a), Len(b)) + 1) :
        /\ \A j \in 1..(i - 1) : a[j] = b[j]
        /\ \/ i > Len(a) /\ i <= Len(b)
           \/ i <= Len(a) /\ i <= Len(b) /\ a[i] < b[i]

\* ------------------------------------------------------------- peer domain
\* storage.KeyPrefix
KeyPrefix == <<112>>

\* Alias strings a caller or a peer can carry: "1" and "p1".  "p1" is the
\* primary key of identity 1 in the prefixed storage, "1" in the plain one.
AliasStrings == {<<49>>, <<112, 49>>}

\* the lists that Keys() returns: no alias or one
KeyLists == {<<>>} \cup {<<a>> : a \in AliasStrings}

\* storage.Peer: the identity and the aliases enumerated by Keys()
Peers == [id : Ids, keys : KeyLists]

\* storage.Peer{}
NoPeer == [id |-> 0, keys |-> <<>>]

\* Peer.Keys()
Keys(p) == p.keys

\* storage.KeyFromPeer
KeyFromPeer(p) == p.id

\* PeerKey.Bytes(nil): the primary key of an identity
Bytes(v, id) == IF v = "prefixed" THEN KeyPrefix \o <<48 + id>> ELSE <<48 + id>>

\* ------------------------------------------------------------------- codec
RECURSIVE JoinKeys(_)
JoinKeys(ks) == IF ks = <<>> THEN <<>> ELSE <<44>> \o Head(ks) \o JoinKeys(Tail(ks))

\* json.Marshal(storage.Peer): '{' id (',' key)* '}'
Marshal(p) == <<123, 48 + p.id>> \o JoinKeys(p.keys) \o <<125>>

RECURSIVE SplitKeys(_, _, _)
\* splits  (',' key)*  into the list of keys; acc is the key being read
SplitKeys(bs, acc, started) ==
    IF bs = <<>> THEN (IF started THEN <<acc>> ELSE <<>>)
    ELSE IF Head(bs) = 44
         THEN (IF started THEN <<acc>> ELSE <<>>) \o SplitKeys(Tail(bs), <<>>, TRUE)
         ELSE SplitKeys(Tail(bs), Append(acc, Head(bs)), started)

\* json.Unmarshal(data, &peer)
Unmarshal(data) ==
    IF /\ Len(data) >= 3
       /\ data[1] = 123
       /\ data[Len(data)] = 125
       /\ data[2] >= 48 /\ data[2] <= 57
       /\ (Len(data) > 3 => data[3] = 44)
    THEN [ok |-> TRUE,
          peer |-> [id |-> data[2] - 48,
                    keys |-> SplitKeys(SubSeq(data, 3, Len(data) - 1), <<>>, FALSE)]]
    ELSE [ok |-> FALSE, peer |-> NoPeer]

\* ------------------------------------------------------------------ engine
EmptyStore == <<>>

Has(store, k) == k \in DOMAIN store

\* pebble Set of one key
Put(store, k, v) == [x \in (DOMAIN store) \cup {k} |-> IF x = k THEN v ELSE store[x]]

RECURSIVE ApplyAll(_, _)
ApplyAll(store, batch) ==
    IF batch = <<>> THEN store
    ELSE ApplyAll(Put(store, Head(batch)[1], Head(batch)[2]), Tail(batch))

\* Batch.Commit: on success the batch's sets, in order, as one unit; on
\* failure nothing
CommitTorn(store, batch, fail) ==
    IF fail = "nil" THEN ApplyAll(store, batch)
    ELSE IF batch = <<>> THEN store
    ELSE Put(store, Head(batch)[1], Head(batch)[2])
CommitFirstOnly(store, batch, fail) ==
    IF fail # "nil" \/ batch = <<>> THEN store
    ELSE Put(store, Head(batch)[1], Head(batch)[2])
Commit(store, batch, fail) ==
    IF fail = "nil" THEN ApplyAll(store, batch) ELSE store

\* DB.Set of one key
Set(store, k, v, fail) == IF fail = "nil" THEN Put(store, k, v) ELSE store

\* ------------------------------------------------------------------ writes
Entry(k, v) == <<k, v>>

\* the batch that add builds: the record entry, then one alias entry per key
addBatch(v, associated, value) ==
    <<Entry(Bytes(v, KeyFromPeer(value)), Marshal(value))>>
    \o [i \in 1..Len(associated) |-> Entry(associated[i], Bytes(v, KeyFromPeer(value)))]

\* the batch of the resolver cache's Assign: the record entry, then the alias
cacheAssignBatch(v, key, value) ==
    <<Entry(Bytes(v, KeyFromPeer(value)), Marshal(value)),
      Entry(key, Bytes(v, KeyFromPeer(value)))>>

\* what the last step handed back to its caller; fresh: the call began after
\* the last write
Returned(op, arg, err, peer, fresh) ==
    [op |-> op, arg |-> arg, err |-> err, peer |-> peer, fresh |-> fresh]

NoReturn == Returned("none", <<>>, "nil", NoPeer, TRUE)

\* the last write call: its arguments, its error and the batch it built
Written(op, key, peer, err, batch) ==
    [op |-> op, key |-> key, peer |-> peer, err |-> err, batch |-> batch]

\* the identities and the alias strings that the calls so far have written
Record(w, id, batch) ==
    [ids |-> w.ids \cup {id},
     aliases |-> w.aliases \cup {batch[i][1] : i \in 2..Len(batch)}]

\* PeerStorage.add: marshal, build the batch, commit
add(op, key, associated, value, fail) ==
    /\ nwrites < MaxWrites
    /\ nwrites' = nwrites + 1
    /\ LET b == addBatch(variant, associated, value)
       IN  /\ db' = Commit(db, b, fail)
           /\ lastWrite' = Written(op, key, value, fail, b)
           /\ written' = Record(written, KeyFromPeer(value), b)
    /\ ret' = Returned(op, key, fail, NoPeer, TRUE)
    /\ UNCHANGED <<kub, call, rel, variant, res, cur>>

WriteFails == {"nil", "commit"}

\* PeerStorage.Add
Add ==
    /\ variant = "prefixed"
    /\ \E value \in Peers, fail \in WriteFails :
          add("Add", <<>>, Keys(value), value, fail)

\* PeerStorage.Assign
Assign ==
    /\ variant = "prefixed"
    /\ \E key \in AliasStrings, value \in Peers, fail \in WriteFails :
          add("Assign", key, Append(Keys(value), key), value, fail)

CacheWriteFails == {"nil", "set"}

\* resolver cache Add: one Set of the record entry
CacheAdd ==
    /\ variant = "plain"
    /\ nwrites < MaxWrites
    /\ \E value \in Peers, fail \in CacheWriteFails :
          /\ db' = Set(db, Bytes(variant, KeyFromPeer(value)), Marshal(value), fail)
          /\ lastWrite' = Written("Add", <<>>, value, fail,
                                  <<Entry(Bytes(variant, KeyFromPeer(value)), Marshal(value))>>)
          /\ written' = Record(written, KeyFromPeer(value), <<>>)
          /\ ret' = Returned("Add", <<>>, fail, NoPeer, TRUE)
    /\ nwrites' = nwrites + 1
    /\ UNCHANGED <<kub, call, rel, variant, res, cur>>

\* resolver cache Assign: a batch of the record entry and the alias entry
CacheAssign ==
    /\ variant = "plain"
    /\ nwrites < MaxWrites
    /\ \E key \in AliasStrings, value \in Peers, fail \in WriteFails :
          LET b == cacheAssignBatch(variant, key, value)
          IN  /\ db' = Commit(db, b, fail)
              /\ lastWrite' = Written("Assign", key, value, fail, b)
              /\ written' = Record(written, KeyFromPeer(value), b)
          /\ ret' = Returned("Assign", key, fail, NoPeer, TRUE)
    /\ nwrites' = nwrites + 1
    /\ UNCHANGED <<kub, call, rel, variant, res, cur>>

\* ------------------------------------------------------------------- reads
NotFound == "ErrPeerNotFound"

\* the decode at the end of Find and Resolve
Decoded(data) ==
    LET got == Unmarshal(data)
    IN  IF got.ok THEN [err |-> "nil", peer |-> got.peer]
        ELSE [err |-> "unmarshal", peer |-> NoPeer]

\* Find on a store: Get, then decode
FindIn(store, id) ==
    IF ~Has(store, id) THEN [err |-> NotFound, peer |-> NoPeer]
    ELSE Decoded(store[id])

Find ==
    /\ \E id \in Ids :
          LET got == FindIn(db, Bytes(variant, id))
          IN  ret' = Returned("Find", id, got.err, got.peer, TRUE)
    /\ UNCHANGED <<kub, call, rel, variant, db, nwrites, lastWrite, written, res, cur>>

\* the store that a Get through the snapshot reads
SnapViewLive(snap, live) == live
SnapView(snap, live) == snap

Idle == [pc |-> "idle", key |-> <<>>, snap |-> EmptyStore, id |-> <<>>, at |-> 0]

\* Resolve, NewSnapshot
ResolveSnapshot ==
    /\ res.pc = "idle"
    /\ \E key \in AliasStrings :
          res' = [pc |-> "snap", key |-> key, snap |-> db, id |-> <<>>, at |-> nwrites]
    /\ ret' = NoReturn
    /\ UNCHANGED <<kub, call, rel, variant, db, nwrites, lastWrite, written, cur>>

\* Resolve, first hop: snap.Get(key)
ResolveGetId ==
    /\ res.pc = "snap"
    /\ IF Has(SnapView(res.snap, db), res.key)
       THEN /\ res' = [res EXCEPT !.pc = "id", !.id = SnapView(res.snap, db)[res.key]]
            /\ ret' = NoReturn
       ELSE /\ res' = Idle
            /\ ret' = Returned("Resolve", res.key, NotFound, NoPeer, res.at = nwrites)
    /\ UNCHANGED <<kub, call, rel, variant, db, nwrites, lastWrite, written, cur>>

\* Resolve, second hop: snap.Get(id), decode
ResolveGetData ==
    /\ res.pc = "id"
    /\ res' = Idle
    /\ LET got == FindIn(SnapView(res.snap, db), res.id)
       IN  ret' = Returned("Resolve", res.key, got.err, got.peer, res.at = nwrites)
    /\ UNCHANGED <<kub, call, rel, variant, db, nwrites, lastWrite, written, cur>>

\* the whole Resolve on one store
ResolveIn(store, key) ==
    IF ~Has(store, key) THEN [err |-> NotFound, peer |-> NoPeer]
    ELSE FindIn(store, store[key])

\* ------------------------------------------------------------------ cursor
\* keyUpperBound: nil (no upper bound) is the empty string
RECURSIVE upperBoundFrom(_, _)
upperBoundFrom(end, i) ==
    IF i < 1 THEN <<>>
    ELSE IF (end[i] + 1) % 256 # 0
         THEN SubSeq([end EXCEPT ![i] = (end[i] + 1) % 256], 1, i)
         ELSE upperBoundFrom([end EXCEPT ![i] = 0], i - 1)

keyUpperBoundNoCut(b) ==
    IF b = <<>> THEN <<>> ELSE [b EXCEPT ![Len(b)] = (b[Len(b)] + 1) % 256]
keyUpperBound(b) == upperBoundFrom(b, Len(b))

\* the keys an iterator with prefixIterOptions(prefix) visits
InBounds(k, prefix) ==
    /\ ~LexLess(k, prefix)
    /\ keyUpperBound(prefix) = <<>> \/ LexLess(k, keyUpperBound(prefix))

RECURSIVE Sorted(_)
\* the keys of S in the order of the iterator
Sorted(S) ==
    IF S = {} THEN <<>>
    ELSE LET least == CHOOSE k \in S : \A o \in S : o = k \/ LexLess(k, o)
         IN  <<least>> \o Sorted(S \ {least})

\* snap.NewIter(prefixIterOptions(prefix)) and iter.First()
NewIter(snap, prefix) == Sorted({k \in DOMAIN snap : InBounds(k, prefix)})

\* the cursor's handles and how often each was released: none
NoRelease == [iter |-> 0, snap |-> 0]

NoCursor ==
    [state |-> "none", snap |-> EmptyStore, keys |-> <<>>, pos |-> 0,
     lastErr |-> "nil", value |-> NoPeer, yielded |-> <<>>, done |-> FALSE,
     at |-> 0]

\* PeerStorage.Iterate
Iterate ==
    /\ variant = "prefixed"
    /\ cur.state # "open"
    /\ cur' = [state |-> "open", snap |-> db, keys |-> NewIter(db, KeyPrefix),
               pos |-> 1, lastErr |-> "nil", value |-> NoPeer, yielded |-> <<>>,
               done |-> FALSE, at |-> nwrites]
    /\ rel' = NoRelease
    /\ ret' = NoReturn
    /\ UNCHANGED <<kub, call, variant, db, nwrites, lastWrite, written, res>>

\* the position the skip loop of Next stops at: the first key from pos on
\* that has the prefix, or one past the end
SkipTo(keys, pos, prefix) ==
    IF \E j \in pos..Len(keys) : HasPrefix(keys[j], prefix)
    THEN CHOOSE j \in pos..Len(keys) :
            /\ HasPrefix(keys[j], prefix)
            /\ \A i \in pos..(j - 1) : ~HasPrefix(keys[i], prefix)
    ELSE Len(keys) + 1

\* Next without the latch: a value that does not decode ends the scan and
\* leaves lastErr as it was
IterNextNoLatch ==
    /\ cur.state = "open"
    /\ LET at == SkipTo(cur.keys, cur.pos, KeyPrefix)
       IN  IF at > Len(cur.keys)
           THEN cur' = [cur EXCEPT !.pos = at, !.done = TRUE]
           ELSE LET got == Unmarshal(cur.snap[cur.keys[at]])
                IN  IF ~got.ok
                    THEN cur' = [cur EXCEPT !.pos = at, !.done = TRUE]
                    ELSE cur' = [cur EXCEPT !.pos = at + 1, !.value = got.peer,
                                            !.yielded = Append(@, got.peer)]
    /\ ret' = NoReturn
    /\ UNCHANGED <<kub, call, rel, variant, db, nwrites, lastWrite, written, res>>

\* Next without the iter.Next() after a decoded value: the scan stays on it
IterNextStuck ==
    /\ cur.state = "open"
    /\ LET at == SkipTo(cur.keys, cur.pos, KeyPrefix)
       IN  IF at > Len(cur.keys)
           THEN cur' = [cur EXCEPT !.pos = at, !.done = TRUE]
           ELSE LET got == Unmarshal(cur.snap[cur.keys[at]])
                IN  IF ~got.ok
                    THEN cur' = [cur EXCEPT !.pos = at, !.lastErr = "unmarshal",
                                            !.done = TRUE]
                    ELSE cur' = [cur EXCEPT !.pos = at, !.value = got.peer,
                                            !.yielded = Append(@, got.peer)]
    /\ ret' = NoReturn
    /\ UNCHANGED <<kub, call, rel, variant, db, nwrites, lastWrite, written, res>>

\* pebbleIterator.Next
IterNext ==
    /\ cur.state = "open"
    /\ LET at == SkipTo(cur.keys, cur.pos, KeyPrefix)
       IN  IF cur.pos > Len(cur.keys)
           THEN cur' = [cur EXCEPT !.done = TRUE]
           ELSE IF at > Len(cur.keys)
           THEN cur' = [cur EXCEPT !.pos = at, !.done = TRUE]
           ELSE LET got == Unmarshal(cur.snap[cur.keys[at]])
                IN  IF ~got.ok
                    THEN cur' = [cur EXCEPT !.pos = at, !.lastErr = "unmarshal",
                                            !.done = TRUE]
                    ELSE cur' = [cur EXCEPT !.pos = at + 1, !.value = got.peer,
                                            !.yielded = Append(@, got.peer)]
    /\ ret' = NoReturn
    /\ UNCHANGED <<kub, call, rel, variant, db, nwrites, lastWrite, written, res>>

\* pebbleIterator.Err
Err ==
    /\ cur.state = "open"
    /\ ret' = Returned("Err", <<>>, cur.lastErr, NoPeer, TRUE)
    /\ UNCHANGED <<kub, call, rel, variant, db, nwrites, lastWrite, written, res, cur>>

\* pebbleIterator.Close, the first one of a cursor
Close ==
    /\ cur.state = "open"
    /\ cur' = [NoCursor EXCEPT !.state = "closed"]
    /\ rel' = [iter |-> rel.iter + 1, snap |-> rel.snap + 1]
    /\ ret' = NoReturn
    /\ UNCHANGED <<kub, call, variant, db, nwrites, lastWrite, written, res>>

\* ------------------------------------------------------- resource handles
\* The handlers once more, each as one step, with the engine's failures as
\* inputs and with the handles they open and release written down:
\*   "snap" a snapshot, "batch" a batch, "value", "id", "data" the closers of
\*   Get, "iter" the cursor's iterator.
\* An error value is the set of the errors that multierr has combined.

\* the error of h.Close() when it fails
CloseErr(h) == "close " \o h

\* multierr.AppendInto(&into, err)
AppendIntoOverwrite(into, err) == IF err = "nil" THEN into ELSE {err}
AppendInto(into, err) == IF err = "nil" THEN into ELSE into \cup {err}

Reverse(q) == [i \in 1..Len(q) |-> q[Len(q) + 1 - i]]

RECURSIVE RunDefers(_, _, _)
\* the deferred Close calls, in the order they run, each appended into rerr
RunDefers(rerr, closing, failing) ==
    IF closing = <<>> THEN rerr
    ELSE RunDefers(AppendInto(rerr, IF Head(closing) \in failing
                                    THEN CloseErr(Head(closing)) ELSE "nil"),
                   Tail(closing), failing)

\* a call that returned: its primary error, the error it returned, the
\* handles it opened and the Close calls it made
Finished(op, primary, peer, opened, deferred, failing) ==
    [op |-> op, primary |-> primary, peer |-> peer, opened |-> opened,
     closed |-> Reverse(deferred), failing |-> failing,
     rerr |-> RunDefers(AppendInto({}, primary), Reverse(deferred), failing)]

NoCall == Finished("none", "nil", NoPeer, <<>>, <<>>, {})

\* Find: where it returns
findStage(store, k, getErr) ==
    IF getErr THEN "get" ELSE IF ~Has(store, k) THEN "miss" ELSE "found"

\* Find: the handles open when it returns from a stage, and the deferred closes
findOpened(stage) == IF stage = "found" THEN <<"value">> ELSE <<>>
findDeferred(stage) == IF stage = "found" THEN <<"value">> ELSE <<>>

\* the primary error of a Get that did not find a value
GetError(stage) == IF stage \in {"get", "get1", "get2"} THEN "get" ELSE NotFound

\* PeerStorage.Find with a failing Get or Close
FindCall ==
    /\ \E id \in Ids, getErr \in BOOLEAN, failing \in SUBSET {"value"} :
          LET k == Bytes(variant, id)
              stage == findStage(db, k, getErr)
              got == IF stage = "found" THEN Decoded(db[k])
                     ELSE [err |-> GetError(stage), peer |-> NoPeer]
          IN  call' = Finished("Find", got.err, got.peer, findOpened(stage),
                               findDeferred(stage), failing)
    /\ UNCHANGED <<variant, db, nwrites, lastWrite, written, ret, res, cur, kub, rel>>

\* Resolve: where it returns
resolveStage(store, key, getErr1, getErr2) ==
    IF getErr1 THEN "get1"
    ELSE IF ~Has(store, key) THEN "miss1"
    ELSE IF getErr2 THEN "get2"
    ELSE IF ~Has(store, store[key]) THEN "miss2"
    ELSE "found"

\* Resolve: the handles open when it returns from a stage
resolveOpened(stage) ==
    IF stage \in {"get1", "miss1"} THEN <<"snap">>
    ELSE IF stage \in {"get2", "miss2"} THEN <<"snap", "id">>
    ELSE <<"snap", "id", "data">>

\* Resolve: the closes deferred before it returns from a stage
resolveDeferredLeaky(stage) ==
    IF stage \in {"get1", "miss1", "get2", "miss2"} THEN <<"snap">>
    ELSE <<"snap", "id", "data">>
resolveDeferred(stage) ==
    IF stage \in {"get1", "miss1"} THEN <<"snap">>
    ELSE IF stage \in {"get2", "miss2"} THEN <<"snap", "id">>
    ELSE <<"snap", "id", "data">>

\* PeerStorage.Resolve with a failing Get or Close
ResolveCall ==
    /\ \E key \in AliasStrings, getErr1 \in BOOLEAN, getErr2 \in BOOLEAN,
          failing \in SUBSET {"snap", "id", "data"} :
          LET stage == resolveStage(db, key, getErr1, getErr2)
              got == IF stage = "found" THEN Decoded(db[db[key]])
                     ELSE [err |-> GetError(stage), peer |-> NoPeer]
          IN  call' = Finished("Resolve", got.err, got.peer, resolveOpened(stage),
                               resolveDeferred(stage), failing)
    /\ UNCHANGED <<variant, db, nwrites, lastWrite, written, ret, res, cur, kub, rel>>

\* add and the cache's Assign: the batch is opened once marshal succeeded
batchOpened(fail) == IF fail = "marshal" THEN <<>> ELSE <<"batch">>
batchDeferred(fail) == IF fail = "marshal" THEN <<>> ELSE <<"batch">>

\* a write call with a failing marshal, Set, Commit or Close
writeCall(op, key, value, b, fail, opened, deferred, failing) ==
    /\ nwrites < MaxFaultWrites
    /\ nwrites' = nwrites + 1
    /\ db' = Commit(db, b, fail)
    /\ lastWrite' = Written(op, key, value, fail, b)
    /\ written' = Record(written, KeyFromPeer(value), b)
    /\ call' = Finished(op, fail, NoPeer, opened, deferred, failing)
    /\ UNCHANGED <<variant, ret, res, cur, kub, rel>>

\* the peers written by the calls whose handles are counted
FaultPeers == {p \in Peers : p.id = 1}

\* PeerStorage.Add with failures
AddCall ==
    /\ variant = "prefixed"
    /\ \E value \in FaultPeers, fail \in {"nil", "marshal", "commit"},
          failing \in SUBSET {"batch"} :
          writeCall("Add", <<>>, value, addBatch(variant, Keys(value), value), fail,
                    batchOpened(fail), batchDeferred(fail), failing)

\* PeerStorage.Assign with failures
AssignCall ==
    /\ variant = "prefixed"
    /\ \E key \in AliasStrings, value \in FaultPeers, fail \in {"nil", "marshal", "commit"},
          failing \in SUBSET {"batch"} :
          writeCall("Assign", key, value,
                    addBatch(variant, Append(Keys(value), key), value), fail,
                    batchOpened(fail), batchDeferred(fail), failing)

\* resolver cache Add with failures: no handle is opened
CacheAddCall ==
    /\ variant = "plain"
    /\ \E value \in FaultPeers, fail \in {"nil", "marshal", "set"} :
          writeCall("Add", <<>>, value,
                    <<Entry(Bytes(variant, KeyFromPeer(value)), Marshal(value))>>, fail,
                    <<>>, <<>>, {})

\* resolver cache Assign with failures
CacheAssignCall ==
    /\ variant = "plain"
    /\ \E key \in AliasStrings, value \in FaultPeers,
          fail \in {"nil", "marshal", "set", "commit"}, failing \in SUBSET {"batch"} :
          writeCall("Assign", key, value, cacheAssignBatch(variant, key, value), fail,
                    batchOpened(fail), batchDeferred(fail), failing)

\* multierr.Append(left, right)
Append2(left, right) == AppendInto(AppendInto({}, left), right)

\* pebbleIterator.Close, the first and every later one, with failing releases
CloseCall ==
    /\ cur.state \in {"open", "closed"}
    /\ rel.iter < MaxCloses
    /\ cur' = [NoCursor EXCEPT !.state = "closed"]
    /\ rel' = [iter |-> rel.iter + 1, snap |-> rel.snap + 1]
    /\ \E failing \in SUBSET {"iter", "snap"} :
          call' = [Finished("Close", "nil", NoPeer, <<"iter", "snap">>, <<>>, failing)
                   EXCEPT !.closed = <<"iter", "snap">>,
                          !.rerr = Append2(IF "iter" \in failing THEN CloseErr("iter")
                                           ELSE "nil",
                                           IF "snap" \in failing THEN CloseErr("snap")
                                           ELSE "nil")]
    /\ UNCHANGED <<variant, db, nwrites, lastWrite, written, ret, res, kub>>

\* ---------------------------------------------------- keyUpperBound alone
\* the bytes of the prefixes and keys: both ends of the byte range
SomeBytes == {0, 1, 2, 254, 255}

RECURSIVE ByteStrings(_)
ByteStrings(n) ==
    IF n = 0 THEN {<<>>}
    ELSE LET shorter == ByteStrings(n - 1)
         IN  shorter \cup {Append(b, x) : b \in shorter, x \in SomeBytes}

\* no prefix bounded yet
NoBounds == [pc |-> "none", prefix |-> <<>>, key |-> <<>>, upper |-> <<>>,
             inside |-> FALSE]

\* prefixIterOptions(prefix), and whether an iterator with these options
\* visits key
BoundPrefix ==
    /\ kub.pc = "input"
    /\ kub' = [kub EXCEPT !.pc = "bounded",
                          !.upper = keyUpperBound(kub.prefix),
                          !.inside = InBounds(kub.key, kub.prefix)]
    /\ UNCHANGED <<variant, db, nwrites, lastWrite, written, ret, res, cur, call, rel>>

\* ---------------------------------------------------------------- the spec
NoWrite == Written("none", <<>>, NoPeer, "nil", <<>>)

Init ==
    /\ variant \in Variants
    /\ db = EmptyStore
    /\ nwrites = 0
    /\ lastWrite = NoWrite
    /\ written = [ids |-> {}, aliases |-> {}]
    /\ ret = NoReturn
    /\ res = Idle
    /\ cur = NoCursor
    /\ kub = NoBounds
    /\ call = NoCall
    /\ rel = NoRelease

Next ==
    \/ Assign
    \/ Add
    \/ CacheAdd
    \/ CacheAssign
    \/ Find
    \/ ResolveSnapshot
    \/ ResolveGetId
    \/ ResolveGetData

Spec == Init /\ [][Next]_vars

\* the prefixed storage with its cursor
InitIter == Init /\ variant = "prefixed"

NextIter ==
    \/ Assign
    \/ Add
    \/ Find
    \/ Iterate
    \/ IterNext
    \/ Err
    \/ Close

SpecIter == InitIter /\ [][NextIter]_vars

\* both storages with every reader.  Resolve and the cursor share no state:
\* one of the two is in flight at a time, next to Find and the writers.
ResolveWhenNoCursor == cur.state # "open" /\ ResolveSnapshot
IterateWhenNoResolve == res.pc = "idle" /\ Iterate

NextReaders ==
    \/ Assign
    \/ Add
    \/ CacheAdd
    \/ CacheAssign
    \/ Find
    \/ ResolveWhenNoCursor
    \/ ResolveGetId
    \/ ResolveGetData
    \/ IterateWhenNoResolve
    \/ IterNext
    \/ Close

SpecReaders == Init /\ [][NextReaders]_vars

\* both storages, every handler one step, with failures and handles
NextFaults ==
    \/ AssignCall
    \/ AddCall
    \/ CacheAddCall
    \/ CacheAssignCall
    \/ FindCall
    \/ ResolveCall
    \/ Iterate
    \/ CloseCall

SpecFaults == Init /\ [][NextFaults]_vars

\* keyUpperBound on every prefix and key of up to MaxLen bytes
InitBound ==
    /\ variant = "prefixed"
    /\ db = EmptyStore
    /\ nwrites = 0
    /\ lastWrite = NoWrite
    /\ written = [ids |-> {}, aliases |-> {}]
    /\ ret = NoReturn
    /\ res = Idle
    /\ cur = NoCursor
    /\ call = NoCall
    /\ rel = NoRelease
    /\ \E prefix \in ByteStrings(MaxLen), key \in ByteStrings(MaxLen) :
          kub = [NoBounds EXCEPT !.pc = "input", !.prefix = prefix, !.key = key]

NextBound == BoundPrefix

SpecBound == InitBound /\ [][NextBound]_vars

\* ------------------------------------------------------------------ claims
Range(f) == {f[i] : i \in DOMAIN f}

LastOk(op) == lastWrite.op = op /\ lastWrite.err = "nil"

\* C1: when Add(p) returned without error and no write followed, a Find of
\* p's identity returns p and no error.
C1_RoundTrip ==
    (ret.op = "Find" /\ LastOk("Add") /\ ret.arg = KeyFromPeer(lastWrite.peer))
        => (ret.err = "nil" /\ ret.peer = lastWrite.peer)

\* C2: when Add(p) returned without error and no write followed, a Resolve
\* of any alias of p that began after the Add returns p.
C2_AliasResolution ==
    (/\ ret.op = "Resolve" /\ ret.fresh /\ LastOk("Add")
     /\ ret.arg \in Range(Keys(lastWrite.peer)))
        => (ret.err = "nil" /\ ret.peer = lastWrite.peer)

\* C3: when Assign(k, p) returned without error and no write followed, a
\* Resolve of k that began after the Assign returns p, whatever k is.
C3_ExplicitAssignment ==
    (/\ ret.op = "Resolve" /\ ret.fresh /\ LastOk("Assign")
     /\ ret.arg = lastWrite.key)
        => (ret.err = "nil" /\ ret.peer = lastWrite.peer)

\* C4: a write call whose commit fails leaves the store as it was, so no
\* entry of that call is there for a later Find, Resolve or Iterate.
C4_FailedWriteUnchanged ==
    [][(nwrites' # nwrites /\ lastWrite'.err # "nil") => db' = db]_vars

C4_Witness ==
    /\ lastWrite.op \in {"Add", "Assign"}
    /\ lastWrite.err # "nil"
    /\ Len(lastWrite.batch) >= 2
    /\ db # EmptyStore

\* C5: the snapshot of a Resolve is the store committed when it was taken, it
\* does not change while the Resolve runs, and the Resolve returns what the
\* whole two-hop lookup gives on that snapshot, whatever was written meanwhile.
C5_ResolveReadsSnapshot ==
    [][/\ (res.pc = "idle" /\ res'.pc # "idle") => res'.snap = db
       /\ (res.pc # "idle" /\ res'.pc # "idle") =>
              (res'.snap = res.snap /\ res'.key = res.key)
       /\ (res.pc # "idle" /\ res'.pc = "idle") =>
              /\ ret'.op = "Resolve"
              /\ ret'.arg = res.key
              /\ ret'.err = ResolveIn(res.snap, res.key).err
              /\ ret'.peer = ResolveIn(res.snap, res.key).peer]_vars

\* a Resolve returned the snapshot's peer although a write that committed
\* between its hops made the store answer differently
C5_Witness ==
    /\ ret.op = "Resolve"
    /\ ~ret.fresh
    /\ ret.err = "nil"
    /\ ResolveIn(db, ret.arg).peer # ret.peer

\* the store `post` is `pre` with every entry of the batch in it
WholeBatch(pre, post, batch) ==
    LET keys == {batch[i][1] : i \in 1..Len(batch)}
        last(k) == CHOOSE i \in 1..Len(batch) :
                      /\ batch[i][1] = k
                      /\ \A j \in (i + 1)..Len(batch) : batch[j][1] # k
    IN  /\ DOMAIN post = (DOMAIN pre) \cup keys
        /\ \A k \in DOMAIN post :
              post[k] = IF k \in keys THEN batch[last(k)][2] ELSE pre[k]

\* C6: every step leaves the store as it was or puts all entries of one write
\* call into it, and every reader reads a store that stood between two steps:
\* Find the current one, Resolve and the cursor the one they snapshotted.
C6_NoPartialWrite ==
    [][/\ \/ db' = db
          \/ /\ nwrites' = nwrites + 1
             /\ lastWrite'.err = "nil"
             /\ WholeBatch(db, db', lastWrite'.batch)
       /\ (res.pc = "idle" /\ res'.pc # "idle") => res'.snap = db
       /\ (res.pc # "idle" /\ res'.pc # "idle") => res'.snap = res.snap
       /\ (cur.state # "open" /\ cur'.state = "open") => cur'.snap = db
       /\ (cur.state = "open" /\ cur'.state = "open") => cur'.snap = cur.snap
       /\ ret'.op = "Find" =>
              /\ ret'.err = FindIn(db, Bytes(variant, ret'.arg)).err
              /\ ret'.peer = FindIn(db, Bytes(variant, ret'.arg)).peer]_vars

\* a write of three entries committed while a Resolve was between its hops
C6_Witness ==
    /\ lastWrite.err = "nil"
    /\ Len(lastWrite.batch) >= 3
    /\ \/ res.pc = "id" /\ res.at < nwrites
       \/ cur.state = "open" /\ cur.at < nwrites /\ cur.pos > 1
    /\ \A i \in 1..Len(lastWrite.batch) : Has(db, lastWrite.batch[i][1])

PrimaryKeys == {Bytes(variant, id) : id \in Ids}

\* the record entries of a store: the primary keys that hold a peer record
RecordEntries(store) ==
    {k \in DOMAIN store : k \in PrimaryKeys /\ Unmarshal(store[k]).ok}

\* C7: when Add(q) commits, after Iterate(), a peer q that the snapshot does
\* not hold, the cursor never yields q, and a Find of q's identity after the
\* Add returns q.
C7_CursorIsolation ==
    (/\ cur.state = "open" /\ cur.at < nwrites
     /\ LastOk("Add")
     /\ ~Has(cur.snap, Bytes(variant, KeyFromPeer(lastWrite.peer))))
        => /\ \A i \in 1..Len(cur.yielded) :
                 KeyFromPeer(cur.yielded[i]) # KeyFromPeer(lastWrite.peer)
           /\ (ret.op = "Find" /\ ret.arg = KeyFromPeer(lastWrite.peer))
                 => (ret.err = "nil" /\ ret.peer = lastWrite.peer)

\* C8: a cursor advanced until Next returned false has yielded the peers of
\* the record entries of its snapshot, each once, and nothing else.
C8_IterationExact ==
    (cur.state = "open" /\ cur.done)
        => /\ Len(cur.yielded) = Cardinality(RecordEntries(cur.snap))
           /\ Range(cur.yielded) =
                 {Unmarshal(cur.snap[k]).peer : k \in RecordEntries(cur.snap)}

\* C9: Find of an identity that no call wrote as a peer's identity, and a
\* Resolve of an alias that no call wrote as an alias, return NotFound.
C9_MissingKey ==
    /\ (ret.op = "Find" /\ ret.arg \notin written.ids) => ret.err = NotFound
    /\ (ret.op = "Resolve" /\ ret.arg \notin written.aliases) => ret.err = NotFound

\* the alias entries of a store: the entries whose value is a primary key
AliasEntries(store) == {k \in DOMAIN store : store[k] \in PrimaryKeys}

\* C10: the value of every alias entry is the key of a record entry that
\* holds a decodable peer record.
C10_AliasIntegrity ==
    \A k \in AliasEntries(db) : db[k] \in RecordEntries(db)
\* the bound the prefix scan needs: none for an empty or all-0xFF prefix,
\* else the prefix cut after its last byte below 0xFF, that byte plus one
ExpectedUpper(prefix) ==
    IF \A i \in 1..Len(prefix) : prefix[i] = 255 THEN <<>>
    ELSE LET last == CHOOSE i \in 1..Len(prefix) :
                        /\ prefix[i] # 255
                        /\ \A j \in (i + 1)..Len(prefix) : prefix[j] = 255
         IN  [i \in 1..last |-> IF i = last THEN prefix[i] + 1 ELSE prefix[i]]

\* C11: keyUpperBound(prefix) is no bound for an empty or all-0xFF prefix and
\* else the prefix cut after its last non-0xFF byte, incremented; a key lies in
\* [prefix, keyUpperBound(prefix)) exactly when it starts with prefix.
C11_UpperBound ==
    kub.pc = "bounded"
        => /\ kub.upper = ExpectedUpper(kub.prefix)
           /\ kub.inside <=> HasPrefix(kub.key, kub.prefix)

\* the bound of [0x01, 0xFF] is [0x02], and the key [0x02] is outside
C11_Witness ==
    /\ kub.pc = "bounded"
    /\ kub.prefix = <<1, 255>>
    /\ kub.upper = <<2>>
    /\ kub.key = <<2>>
    /\ ~kub.inside
Count(q, h) == Cardinality({i \in 1..Len(q) : q[i] = h})

\* C12: when Add, Assign, Find or Resolve returns, on every path, each
\* handle it opened has been closed once, and nothing else has been closed.
C12_ResourceHygiene ==
    call.op \in {"Add", "Assign", "Find", "Resolve"}
        => \A h \in {"snap", "batch", "value", "id", "data"} :
              /\ Count(call.opened, h) <= 1
              /\ Count(call.closed, h) = Count(call.opened, h)

\* a Resolve that missed on its second hop released the snapshot and the
\* closer of the first hop
C12_Witness ==
    /\ call.op = "Resolve"
    /\ call.primary = NotFound
    /\ call.opened = <<"snap", "id">>
    /\ Count(call.closed, "id") = 1

\* C17: once a cursor returned by Iterate has been closed, by one Close call
\* or by several, its snapshot and its scan handle have each been released
\* exactly once.
C17_CloseOnce ==
    cur.state = "closed" => rel.iter = 1 /\ rel.snap = 1

Handlers == {"Add", "Assign", "Find", "Resolve"}

\* the release failures of the call that returned
ReleaseFailures == {CloseErr(h) : h \in Range(call.closed) \cap call.failing}

\* C18: Close attempts the release of the scan handle and of the snapshot and
\* returns every release failure; the error returned by Add, Assign, Find and
\* Resolve holds the primary error and every release failure, and is nil only
\* when there was neither.
C18_ReleaseErrorsAggregated ==
    /\ call.op = "Close"
          => /\ call.closed = <<"iter", "snap">>
             /\ call.rerr = ReleaseFailures
    /\ call.op \in Handlers
          => /\ call.primary # "nil" => call.primary \in call.rerr
             /\ ReleaseFailures \subseteq call.rerr
             /\ call.rerr = {} <=> (call.primary = "nil" /\ ReleaseFailures = {})

\* a Resolve that missed on its second hop while the closer of the first hop
\* and the snapshot both failed to close
C18_Witness ==
    /\ call.op = "Resolve"
    /\ call.primary = NotFound
    /\ call.rerr = {NotFound, CloseErr("id"), CloseErr("snap")}

\* the result of a read that found peer p
Found(p) == [err |-> "nil", peer |-> p]

\* the alias keys that a write call put in its batch
BatchAliases(w) == {w.batch[i][1] : i \in 2..Len(w.batch)}

\* C13: when Assign(k, p) returned without error and no write followed, Find
\* of p's identity returns p, Resolve(k) returns p, and Resolve(a) returns p
\* for every alias a of p.
C13_AssignIsAddPlusAlias ==
    LastOk("Assign")
        => LET p == lastWrite.peer
           IN  /\ FindIn(db, Bytes(variant, KeyFromPeer(p))) = Found(p)
               /\ ResolveIn(db, lastWrite.key) = Found(p)
               /\ \A a \in Range(Keys(p)) : ResolveIn(db, a) = Found(p)

\* C14: no Add or Assign call writes an alias entry under a key that is a
\* primary key or that lies in the prefix range of the primary keys.
C14_NoKeyCollision ==
    \A a \in BatchAliases(lastWrite) :
        /\ a \notin PrimaryKeys
        /\ variant = "prefixed" => ~HasPrefix(a, KeyPrefix)

\* a write call that returned without error made this step
WriteOk(op) ==
    /\ nwrites' = nwrites + 1
    /\ lastWrite'.op = op
    /\ lastWrite'.err = "nil"

\* C15: when Assign(k, p) and then Assign(k, q), of two peers of different
\* identities, both returned without error, Resolve(k) returns q and Find of
\* p's identity still returns p.
C15_LastWriteWins ==
    [][(/\ LastOk("Assign")
        /\ WriteOk("Assign")
        /\ lastWrite'.key = lastWrite.key
        /\ KeyFromPeer(lastWrite'.peer) # KeyFromPeer(lastWrite.peer))
          => /\ ResolveIn(db', lastWrite.key) = Found(lastWrite'.peer)
             /\ FindIn(db', Bytes(variant, KeyFromPeer(lastWrite.peer)))
                   = Found(lastWrite.peer)]_vars

\* C20: no write removes a key of the store; and when a call wrote alias a
\* for an identity and the next write stores a peer of that identity
\* without a, Resolve(a) returns the newly stored peer.
C20_AliasesNeverRetracted ==
    [][/\ DOMAIN db \subseteq DOMAIN db'
       /\ \A a \in BatchAliases(lastWrite) \ BatchAliases(lastWrite') :
             (/\ lastWrite.err = "nil"
              /\ WriteOk("Add") \/ WriteOk("Assign")
              /\ KeyFromPeer(lastWrite'.peer) = KeyFromPeer(lastWrite.peer))
                => ResolveIn(db', a) = Found(lastWrite'.peer)]_vars

\* the positions of a cursor's keys whose value does not decode
Undecodable(c) == {i \in 1..Len(c.keys) : ~Unmarshal(c.snap[c.keys[i]]).ok}

\* the peers before position n of a cursor's keys
PeersBefore(c, n) == [i \in 1..(n - 1) |-> Unmarshal(c.snap[c.keys[i]]).peer]

\* what Err returns once Next has returned false
LatchedErr(c) == IF Undecodable(c) = {} THEN "nil" ELSE "unmarshal"

\* C16: Next returns false at the first entry whose value does not decode and
\* has yielded the entries before it and none after it; Err then returns the
\* decode error, on every call; Err returns nil when Next returned false at
\* the end of the snapshot's entries, and before Next has returned false.
C16_LatchedDecodeFailure ==
    cur.state = "open"
        => /\ ~cur.done => cur.lastErr = "nil"
           /\ cur.done
                 => /\ cur.lastErr = LatchedErr(cur)
                    /\ cur.yielded =
                          PeersBefore(cur, IF Undecodable(cur) = {}
                                           THEN Len(cur.keys) + 1
                                           ELSE CHOOSE i \in Undecodable(cur) :
                                                  \A j \in Undecodable(cur) : i <= j)
                    /\ ret.op = "Err" => ret.err = LatchedErr(cur)

\* Err after a scan that stopped at an undecodable first entry, with a
\* decodable entry after it that was not yielded
C16_Witness ==
    /\ cur.state = "open" /\ cur.done
    /\ Len(cur.keys) = 2 /\ Undecodable(cur) = {1}
    /\ cur.yielded = <<>>
    /\ ret.op = "Err" /\ ret.err = "unmarshal"

\* the number of entries of a cursor's snapshot in the scanned range
InRange(c) == Cardinality({k \in DOMAIN c.snap : HasPrefix(k, KeyPrefix)})

\* C19: every Next either returns false or yields one more entry, of at most
\* as many as the snapshot holds in the scanned range, whatever has been
\* written since Iterate; once Next has returned false, every later Next
\* returns false and yields nothing.
C19_CursorFinite ==
    [][IterNext
         => /\ \/ cur'.done /\ cur'.yielded = cur.yielded
               \/ /\ ~cur'.done
                  /\ Len(cur'.yielded) = Len(cur.yielded) + 1
                  /\ Len(cur'.yielded) <= InRange(cur)
            /\ cur.done => cur'.done /\ cur'.yielded = cur.yielded
            /\ cur'.snap = cur.snap]_vars

\* a cursor over one entry that has yielded it and returned false, while a
\* write that followed Iterate has put a second entry in the scanned range
C19_Witness ==
    /\ cur.state = "open" /\ cur.done
    /\ InRange(cur) = 1 /\ Len(cur.yielded) = 1
    /\ cur.at < nwrites
    /\ Cardinality({k \in DOMAIN db : HasPrefix(k, KeyPrefix)}) = 2
====
